---- MODULE Spec2Model ----
(***************************************************************************)
(* Model of backend/server.js: the sqlite `queue` table, the Express       *)
(* handlers that write it (create_media, publish_media, schedule, queue    *)
(* list and delete) and the node-cron scheduler callback.                  *)
(*                                                                         *)
(* Granularity: JavaScript runs each handler to its next `await` without   *)
(* interruption, and sqlite executes one statement atomically.  A step of  *)
(* the model is therefore one synchronous segment of a handler together    *)
(* with the single statement it issues.  The Express handlers issue one    *)
(* statement each, so each is one action.  The cron callback issues one    *)
(* SELECT and then one UPDATE per row, so it is one action for the SELECT  *)
(* (TickStart) and one action per loop iteration (TickWrite); any other    *)
(* handler, and another run of the callback, can interleave between them.  *)
(*                                                                         *)
(* Failure: a statement on db may reject (store unavailable, busy, disk    *)
(* error).  Each action that issues a statement takes dbOk, whether that   *)
(* statement resolves; a rejected statement changes no row.                *)
(*                                                                         *)
(* Time: timestamps are ISO-8601 UTC strings produced by toISOString();    *)
(* their TEXT ordering in sqlite is their chronological ordering, so they  *)
(* are modelled as naturals (clock units) compared with <=.                *)
(***************************************************************************)
EXTENDS Integers, Sequences, FiniteSets, Bags, TLC

\* ---- bounds of the model -------------------------------------------------
NumIds   == 2      \* number of distinct strings makeId() can return
MaxTime  == 1      \* the clock runs over 0..MaxTime
MaxJobs  == 2      \* total number of successful INSERTs in a behaviour
NumTicks == 2      \* cron callbacks that can be in flight at once
PubCap   == 2      \* the history counters of a row saturate at this value

\* 60*60*1000 ms, the default delay of /api/schedule: the clock unit of the
\* model is one hour
Hour == 1

Ids   == 1..NumIds

\* SQL NULL / a timestamp that is not there
NULL == -1
\* JavaScript undefined for a string-valued request field
Undefined == "undefined"
\* a request without creation_id
NoId == 0

\* Request fields.  scheduleTime is stored as the client sent it; the model
\* draws it from the timestamps of the clock's format (NULL: not sent).
ImageInputs    == {Undefined, "", "http://x/a.jpg"}
CaptionInputs  == {Undefined}
TimeInputs     == {NULL} \cup (0..MaxTime)
CreationInputs == {NoId} \cup Ids

VARIABLES
    clock,       \* what new Date() / Date.now() returns
    store,       \* the rows of table `queue`
    tick,        \* the bag of runs of the cron callback that are in flight
    lastResp,    \* what the step just taken sent out: the HTTP response of a
                 \* request, the error line of a cron run that failed, NoResp
                 \* for any other step
    nextSerial,  \* history: number of rows inserted so far, plus one
    issued       \* history: the ids makeId() gave to the rows inserted so far,
                 \* in the order of their INSERTs

vars == <<clock, store, tick, lastResp, nextSerial, issued>>

\* ---- the table ------------------------------------------------------------
\* A row holds the six columns of CREATE TABLE queue and four history
\* fields that the program does not store:
\*   serial  which INSERT made the row (tells a job from a later job that
\*           makeId() happened to give the same id)
\*   by      which writers' UPDATEs have hit the row ("now": publish_media,
\*           "tick": the cron callback)
\*   pubs    how many UPDATEs have hit the row, saturating at PubCap
\*   trans   how many of them changed the status column, saturating at PubCap
Columns(r) ==
    [id |-> r.id, imageUrl |-> r.imageUrl, caption |-> r.caption,
     scheduledAt |-> r.scheduledAt, status |-> r.status,
     createdAt |-> r.createdAt]

Table(s) == {Columns(r) : r \in s}

RowsOf(s, id) == {r \in s : r.id = id}

NewRow(id, imageUrl, caption, scheduledAt, status, createdAt, serial) ==
    [id |-> id, imageUrl |-> imageUrl, caption |-> caption,
     scheduledAt |-> scheduledAt, status |-> status, createdAt |-> createdAt,
     serial |-> serial, by |-> {}, pubs |-> 0, trans |-> 0]

\* (variant: the id column without PRIMARY KEY)
PkConflictNever(s, id) == FALSE

\* id TEXT PRIMARY KEY: an INSERT of an id that is present is rejected
PkConflict(s, id) == \E r \in s : r.id = id

\* (variant: a test for '' only, which lets a missing field through)
FalsyEmptyOnly(v) == v = ""

\* (variant: a test for undefined only, which lets '' through)
FalsyUndefinedOnly(v) == v = Undefined

\* !x for a string-valued request field
Falsy(v) == v \in {Undefined, ""}

\* caption || ''
CaptionOr(c) == IF Falsy(c) THEN "" ELSE c

\* (variant: the default taken whether or not scheduleTime was sent)
ScheduledAtDefaultOnly(scheduleTime, now) == now + Hour

\* (variant: scheduleTime stored as sent, with no default)
ScheduledAtAsSent(scheduleTime, now) == scheduleTime

\* scheduleTime || new Date(Date.now() + 60*60*1000).toISOString()
ScheduledAtOr(scheduleTime, now) ==
    IF scheduleTime = NULL THEN now + Hour ELSE scheduleTime

\* (variant: the cron callback's UPDATE writes 'scheduled' back)
WrittenTickRequeues(r, status, time, src) ==
    [r EXCEPT !.status = IF src = "tick" THEN "scheduled" ELSE status,
              !.scheduledAt = time,
              !.by = @ \cup {src},
              !.pubs = IF @ < PubCap THEN @ + 1 ELSE @,
              !.trans = @]

\* (variant: the UPDATE sets status only and keeps the stored scheduledAt)
WrittenStatusOnly(r, status, time, src) ==
    [r EXCEPT !.status = status,
              !.by = @ \cup {src},
              !.pubs = IF @ < PubCap THEN @ + 1 ELSE @,
              !.trans = IF r.status # status THEN (IF @ < PubCap THEN @ + 1 ELSE @)
                                               ELSE @]

\* (variant: the UPDATE sets createdAt too)
WrittenResetsCreatedAt(r, status, time, src) ==
    [r EXCEPT !.status = status, !.scheduledAt = time, !.createdAt = time,
              !.by = @ \cup {src},
              !.pubs = IF @ < PubCap THEN @ + 1 ELSE @,
              !.trans = IF r.status # status THEN (IF @ < PubCap THEN @ + 1 ELSE @)
                                               ELSE @]

\* (variant: the UPDATE keeps a scheduledAt that is already there)
WrittenKeepsPlannedTime(r, status, time, src) ==
    [r EXCEPT !.status = status,
              !.scheduledAt = IF @ = NULL THEN time ELSE @,
              !.by = @ \cup {src},
              !.pubs = IF @ < PubCap THEN @ + 1 ELSE @,
              !.trans = IF r.status # status THEN (IF @ < PubCap THEN @ + 1 ELSE @)
                                               ELSE @]

\* the row r after SET status = ?, scheduledAt = ? by writer src
Written(r, status, time, src) ==
    [r EXCEPT !.status = status, !.scheduledAt = time,
              !.by = @ \cup {src},
              !.pubs = IF @ < PubCap THEN @ + 1 ELSE @,
              !.trans = IF r.status # status THEN (IF @ < PubCap THEN @ + 1 ELSE @)
                                               ELSE @]

\* (variant: a scheduler that removes the job it has published)
UpdateStatusTickRemoves(s, id, status, time, src) ==
    IF src = "tick"
      THEN {r \in s : r.id # id}
      ELSE {IF r.id = id THEN Written(r, status, time, src) ELSE r : r \in s}

\* (variant: INSERT OR REPLACE, which makes the row when the id is absent)
UpdateStatusUpsert(s, id, status, time, src) ==
    IF RowsOf(s, id) = {}
      THEN s \cup {[NewRow(id, "", "", time, status, time, 0)
                       EXCEPT !.by = {src}, !.pubs = 1, !.trans = 1]}
      ELSE {IF r.id = id THEN Written(r, status, time, src) ELSE r : r \in s}

\* UPDATE queue SET status = ?, scheduledAt = ? WHERE id = ?
UpdateStatus(s, id, status, time, src) ==
    {IF r.id = id THEN Written(r, status, time, src) ELSE r : r \in s}

\* the `changes` of that UPDATE: the number of rows it matched
Changes(s, id) == Cardinality(RowsOf(s, id))

\* (variant: a DELETE that spares published rows)
DeleteRowUnlessPublished(s, id) ==
    {r \in s : r.id # id \/ r.status = "published"}

\* DELETE FROM queue WHERE id = ?
DeleteRow(s, id) == {r \in s : r.id # id}

\* (variant: scheduledAt < ? in place of scheduledAt <= ?)
DueRowsStrict(s, now) ==
    {r \in s : r.status = "scheduled" /\ r.scheduledAt # NULL
                 /\ r.scheduledAt < now}

\* SELECT * FROM queue WHERE status = 'scheduled' AND scheduledAt <= ?
\* (a NULL scheduledAt never satisfies <=)
DueRows(s, now) ==
    {r \in s : r.status = "scheduled" /\ r.scheduledAt # NULL
                 /\ r.scheduledAt <= now}

\* (variant: a result set that may return a row more than once)
OrderingsWithRepeats(S) == [1..Cardinality(S) -> S]

\* the sequences that list every element of S once
Orderings(S) ==
    {f \in [1..Cardinality(S) -> S] :
        \A i, j \in 1..Cardinality(S) : i # j => f[i] # f[j]}

\* (variant: ORDER BY createdAt ASC)
QueueListingsAscending(s) ==
    {f \in Orderings(s) :
        \A i, j \in 1..Len(f) : i < j => f[i].createdAt <= f[j].createdAt}

\* SELECT * FROM queue ORDER BY createdAt DESC (rows with equal createdAt
\* come in an order SQL leaves open)
QueueListings(s) ==
    {f \in Orderings(s) :
        \A i, j \in 1..Len(f) : i < j => f[i].createdAt >= f[j].createdAt}

\* ---- responses --------------------------------------------------------------
\* op is the route that answered, req the request field the handler looked
\* at, code the HTTP status and body the JSON sent.  changes is history: what
\* db.run returned for the handler's statement (no handler sends it).
NoResp == [op |-> "none", code |-> 0]

Resp(op, req, code, body, changes) ==
    [op |-> op, req |-> req, code |-> code, body |-> body, changes |-> changes]

\* console.error('Scheduler error', e): what the catch of the cron callback
\* writes; the callback returns after it
SchedulerError == [op |-> "scheduler_error", code |-> 0]

\* ---- initial state ----------------------------------------------------------
Init ==
    /\ clock = 0
    /\ store = {}
    /\ tick = EmptyBag
    /\ lastResp = NoResp
    /\ nextSerial = 1
    /\ issued = <<>>

\* ---- environment ------------------------------------------------------------
Advance ==
    /\ clock < MaxTime
    /\ clock' = clock + 1
    /\ lastResp' = NoResp
    /\ UNCHANGED <<store, tick, nextSerial, issued>>

\* ---- POST /api/create_media ---------------------------------------------------
\* id is what makeId() returns: any string of its range, with no memory of
\* the ids it returned before.
CreateMedia(imageUrl, caption, id, dbOk) ==
    /\ IF Falsy(imageUrl)
         THEN /\ lastResp' = Resp("create_media", imageUrl, 400,
                                  [error |-> "Missing imageUrl"], NULL)
              /\ UNCHANGED <<store, nextSerial, issued>>
         ELSE IF ~dbOk \/ PkConflict(store, id)
         THEN /\ lastResp' = Resp("create_media", imageUrl, 500,
                                  [error |-> "db"], NULL)
              /\ UNCHANGED <<store, nextSerial, issued>>
         ELSE /\ nextSerial <= MaxJobs
              /\ store' = store \cup
                    {NewRow(id, imageUrl, CaptionOr(caption), NULL, "created",
                            clock, nextSerial)}
              /\ nextSerial' = nextSerial + 1
              /\ issued' = Append(issued, id)
              /\ lastResp' = Resp("create_media", imageUrl, 200,
                                  [creation_id |-> id], 1)
    /\ UNCHANGED <<clock, tick>>

\* ---- POST /api/publish_media --------------------------------------------------
\* The body also carries id: 'post_' + makeId(), a fresh random string that
\* nothing reads back; it is left out of the modelled body.
\* (variant: a handler that answers 404 when its UPDATE matched no row)
PublishMediaReportsAbsent(creation_id, dbOk) ==
    /\ IF creation_id = NoId
         THEN /\ lastResp' = Resp("publish_media", creation_id, 400,
                                  [error |-> "Missing creation_id"], NULL)
              /\ UNCHANGED store
         ELSE IF ~dbOk
         THEN /\ lastResp' = Resp("publish_media", creation_id, 500,
                                  [error |-> "db"], NULL)
              /\ UNCHANGED store
         ELSE IF Changes(store, creation_id) = 0
         THEN /\ lastResp' = Resp("publish_media", creation_id, 404,
                                  [error |-> "Not found"], 0)
              /\ UNCHANGED store
         ELSE /\ store' = UpdateStatus(store, creation_id, "published",
                                       clock, "now")
              /\ lastResp' = Resp("publish_media", creation_id, 200,
                                  [publishedAt |-> clock],
                                  Changes(store, creation_id))
    /\ UNCHANGED <<clock, tick, nextSerial, issued>>

PublishMedia(creation_id, dbOk) ==
    /\ IF creation_id = NoId
         THEN /\ lastResp' = Resp("publish_media", creation_id, 400,
                                  [error |-> "Missing creation_id"], NULL)
              /\ UNCHANGED store
         ELSE IF ~dbOk
         THEN /\ lastResp' = Resp("publish_media", creation_id, 500,
                                  [error |-> "db"], NULL)
              /\ UNCHANGED store
         ELSE /\ store' = UpdateStatus(store, creation_id, "published",
                                       clock, "now")
              /\ lastResp' = Resp("publish_media", creation_id, 200,
                                  [publishedAt |-> clock],
                                  Changes(store, creation_id))
    /\ UNCHANGED <<clock, tick, nextSerial, issued>>

\* ---- POST /api/schedule -------------------------------------------------------
Schedule(imageUrl, caption, scheduleTime, id, dbOk) ==
    /\ IF Falsy(imageUrl)
         THEN /\ lastResp' = Resp("schedule", imageUrl, 400,
                                  [error |-> "Missing imageUrl"], NULL)
              /\ UNCHANGED <<store, nextSerial, issued>>
         ELSE IF ~dbOk \/ PkConflict(store, id)
         THEN /\ lastResp' = Resp("schedule", imageUrl, 500,
                                  [error |-> "db"], NULL)
              /\ UNCHANGED <<store, nextSerial, issued>>
         ELSE /\ nextSerial <= MaxJobs
              /\ store' = store \cup
                    {NewRow(id, imageUrl, CaptionOr(caption),
                            ScheduledAtOr(scheduleTime, clock), "scheduled",
                            clock, nextSerial)}
              /\ nextSerial' = nextSerial + 1
              /\ issued' = Append(issued, id)
              /\ lastResp' = Resp("schedule", imageUrl, 200,
                                  [jobId |-> id,
                                   scheduledAt |->
                                       ScheduledAtOr(scheduleTime, clock)], 1)
    /\ UNCHANGED <<clock, tick>>

\* ---- GET /api/queue -----------------------------------------------------------
GetQueue(dbOk) ==
    /\ IF ~dbOk
         THEN lastResp' = Resp("queue", "", 500, [error |-> "db"], NULL)
         ELSE \E rows \in QueueListings(store) :
                lastResp' = Resp("queue", "", 200,
                                 [i \in 1..Len(rows) |-> Columns(rows[i])], NULL)
    /\ UNCHANGED <<clock, store, tick, nextSerial, issued>>

\* ---- DELETE /api/queue/:id ----------------------------------------------------
DeleteQueue(id, dbOk) ==
    /\ IF ~dbOk
         THEN /\ lastResp' = Resp("delete", id, 500, [error |-> "db"], NULL)
              /\ UNCHANGED store
         ELSE /\ store' = DeleteRow(store, id)
              /\ lastResp' = Resp("delete", id, 200, [ok |-> TRUE],
                                  Changes(store, id))
    /\ UNCHANGED <<clock, tick, nextSerial, issued>>

\* ---- cron.schedule('* * * * *', ...) ------------------------------------------
\* node-cron starts the callback on its timer whether or not an earlier run
\* has returned, so up to NumTicks runs are in flight; the model lets a run
\* start at any moment (the one-minute period is not modelled).
\* A run in flight is a record: due, the rows of its SELECT (the loop uses
\* row.id only, so the model keeps the id and the history field serial);
\* idx, the position of the loop in due; changes, what the run's last db.run
\* returned (the callback discards it).  `now` is read by the SELECT only and
\* is not kept.  Runs have no identity, so tick is a bag of such records.
DueEntry(r) == [id |-> r.id, serial |-> r.serial]

Runs == BagToSet(tick)

CurId(run) == run.due[run.idx].id

\* (variant: a scheduler that an error stops; no run starts in the state a
\* failed run has left)
TickStartStoppedByError(dbOk) ==
    /\ lastResp # SchedulerError
    /\ BagCardinality(tick) < NumTicks
    /\ \E due \in Orderings(DueRows(store, clock)) :
          tick' = IF Len(due) = 0 \/ ~dbOk THEN tick
                  ELSE tick (+) SetToBag({
                         [due |-> [i \in 1..Len(due) |-> DueEntry(due[i])],
                          idx |-> 1, changes |-> NULL]})
    /\ lastResp' = IF dbOk THEN NoResp ELSE SchedulerError
    /\ UNCHANGED <<clock, store, nextSerial, issued>>

TickStart(dbOk) ==
    /\ BagCardinality(tick) < NumTicks
    /\ IF ~dbOk
         THEN /\ UNCHANGED tick
              /\ lastResp' = SchedulerError
         ELSE /\ \E due \in Orderings(DueRows(store, clock)) :
                   tick' = IF Len(due) = 0 THEN tick
                           ELSE tick (+) SetToBag({
                                  [due |-> [i \in 1..Len(due) |-> DueEntry(due[i])],
                                   idx |-> 1, changes |-> NULL]})
              /\ lastResp' = NoResp
    /\ UNCHANGED <<clock, store, nextSerial, issued>>

\* one iteration of `for (const row of due)`; a rejected db.run leaves the
\* loop through the catch around the whole callback, and the run is over
TickWrite(run, dbOk) ==
    /\ BagIn(run, tick)
    /\ IF ~dbOk
         THEN /\ tick' = tick (-) SetToBag({run})
              /\ lastResp' = SchedulerError
              /\ UNCHANGED store
         ELSE /\ store' = UpdateStatus(store, CurId(run), "published",
                                       clock, "tick")
              /\ lastResp' = NoResp
              /\ tick' = IF run.idx = Len(run.due)
                           THEN tick (-) SetToBag({run})
                           ELSE (tick (-) SetToBag({run})) (+) SetToBag({
                                  [run EXCEPT !.idx = @ + 1,
                                      !.changes = Changes(store, CurId(run))]})
    /\ UNCHANGED <<clock, nextSerial, issued>>

Next ==
    \/ Advance
    \/ \E imageUrl \in ImageInputs, caption \in CaptionInputs, id \in Ids,
          dbOk \in BOOLEAN :
          CreateMedia(imageUrl, caption, id, dbOk)
    \/ \E creation_id \in CreationInputs, dbOk \in BOOLEAN :
          PublishMedia(creation_id, dbOk)
    \/ \E imageUrl \in ImageInputs, caption \in CaptionInputs,
          scheduleTime \in TimeInputs, id \in Ids, dbOk \in BOOLEAN :
          Schedule(imageUrl, caption, scheduleTime, id, dbOk)
    \/ \E dbOk \in BOOLEAN : GetQueue(dbOk)
    \/ \E id \in Ids, dbOk \in BOOLEAN : DeleteQueue(id, dbOk)
    \/ \E dbOk \in BOOLEAN : TickStart(dbOk)
    \/ \E run \in Runs, dbOk \in BOOLEAN : TickWrite(run, dbOk)

Spec == Init /\ [][Next]_vars

\* The scheduler next to the requests that write the table and are served:
\* the steps left out (a request that is rejected or fails, GET /api/queue)
\* change neither the table nor the runs in flight.  The statements of the
\* cron callback still resolve or reject.
SchedulerNext ==
    \/ Advance
    \/ \E imageUrl \in ImageInputs \ {Undefined, ""}, id \in Ids :
          CreateMedia(imageUrl, Undefined, id, TRUE)
    \/ \E creation_id \in Ids : PublishMedia(creation_id, TRUE)
    \/ \E imageUrl \in ImageInputs \ {Undefined, ""},
          scheduleTime \in TimeInputs, id \in Ids :
          Schedule(imageUrl, Undefined, scheduleTime, id, TRUE)
    \/ \E id \in Ids : DeleteQueue(id, TRUE)
    \/ \E dbOk \in BOOLEAN : TickStart(dbOk)
    \/ \E run \in Runs, dbOk \in BOOLEAN : TickWrite(run, dbOk)

\* The scheduler keeps firing and the store works again: node-cron starts
\* the callback every minute for as long as the process lives, so a run whose
\* SELECT resolves is taken again and again, and of the UPDATEs that the runs
\* in flight issue, some resolve.
FairSpec ==
    /\ Init /\ [][SchedulerNext]_vars
    /\ WF_vars(TickStart(TRUE))
    /\ SF_vars(\E run \in Runs : TickWrite(run, TRUE))

TypeOK ==
    /\ clock \in 0..MaxTime
    /\ nextSerial \in 1..(MaxJobs + 1)
    /\ issued \in Seq(Ids) /\ Len(issued) = nextSerial - 1
    /\ \A r \in store :
          /\ r.id \in Ids
          /\ r.status \in {"created", "scheduled", "published"}
          /\ r.serial \in 1..MaxJobs
    /\ BagCardinality(tick) <= NumTicks
    /\ \A run \in Runs : run.idx \in 1..Len(run.due)

\* ---- properties -------------------------------------------------------------
Rank(status) ==
    CASE status = "created" -> 1
      [] status = "scheduled" -> 2
      [] status = "published" -> 3

Serials(s) == {r.serial : r \in s}

IdsOf(s) == {r.id : r \in s}

\* the run that `run` becomes when its loop goes on to the next row
Continues(run) ==
    \E nxt \in BagToSet(tick') :
        /\ nxt.due = run.due
        /\ nxt.idx = run.idx + 1
        /\ CopiesIn(nxt, tick') > CopiesIn(nxt, tick)

\* C1: no step takes the status stored under an id backwards along
\* created -> scheduled -> published: whenever an id has a row before and
\* after a step, the status after is the same or a later one.
C1_StatusOnlyMovesForward ==
    [][\A r \in store, r2 \in store' :
          r.id = r2.id => Rank(r2.status) >= Rank(r.status)]_vars

\* a job that was scheduled, then published by both writers, and is still
\* published
C1_Witness ==
    \E r \in store : r.status = "published" /\ r.by = {"now", "tick"}

\* C2: for every job, the publish write (the UPDATE that sets status
\* 'published') is performed at most once, whatever the interleaving of
\* cron runs and publish_media requests.
C2_AtMostOncePublish == \A r \in store : r.pubs <= 1

\* C3: the cron callback's UPDATE is a compare-and-swap on status: when the
\* row it is about to write is no longer 'scheduled' (another writer has
\* published it since the SELECT), the UPDATE leaves every column of every
\* row as it was.
C3_TickWriteIsCompareAndSwap ==
    [][\A run \in Runs :
          ( /\ TickWrite(run, TRUE)
            /\ \E r \in store : /\ r.id = CurId(run)
                                /\ r.serial = run.due[run.idx].serial
                                /\ r.status = "published" )
          => Table(store') = Table(store)]_vars

\* C4: a run of the cron callback that meets no store error publishes the
\* jobs that are due when it starts: its SELECT returns every row with
\* status 'scheduled' and scheduledAt <= now (a scheduledAt in the past at
\* submission included), each UPDATE leaves the row 'published' with
\* scheduledAt set to the time of that UPDATE, the loop goes on to the next
\* row, and when the run returns every job it read that has not been deleted
\* is 'published'.
C4_Step ==
    /\ (lastResp' = NoResp /\ tick' # tick /\ TickStart(TRUE)) =>
          LET dueNow == {r \in store : /\ r.status = "scheduled"
                                       /\ r.scheduledAt # NULL
                                       /\ r.scheduledAt <= clock}
          IN  dueNow # {} =>
                \E run \in BagToSet(tick') :
                    /\ CopiesIn(run, tick') = CopiesIn(run, tick) + 1
                    /\ run.idx = 1
                    /\ {run.due[i].serial : i \in 1..Len(run.due)}
                         = Serials(dueNow)
    /\ \A run \in Runs :
          (lastResp' = NoResp /\ tick' # tick /\ TickWrite(run, TRUE)) =>
          /\ \A r2 \in RowsOf(store', CurId(run)) :
                r2.status = "published" /\ r2.scheduledAt = clock
          /\ run.idx < Len(run.due) => Continues(run)
          /\ run.idx = Len(run.due) =>
                \A k \in 1..Len(run.due) : \A r2 \in store' :
                    r2.serial = run.due[k].serial =>
                        /\ r2.status = "published"
                        /\ r2.scheduledAt # NULL
                        /\ r2.scheduledAt >= r2.createdAt

C5_RaceLeavesOnePublishedRow ==
    \A r \in store : r.by = {"now", "tick"} =>
        /\ Cardinality(RowsOf(store, r.id)) = 1
        /\ r.status = "published"
        /\ r.trans = 1
        /\ r.scheduledAt # NULL
        /\ r.scheduledAt <= clock

\* both writers have written the job (two publish writes) and a later
\* step has been taken
C5_Witness ==
    \E r \in store : r.by = {"now", "tick"} /\ r.pubs = 2 /\ r.scheduledAt < clock

\* C6: DELETE /api/queue/:id with the store available answers 200 and
\* leaves no row under the id, whatever the status of the row was, and
\* leaves the other rows alone; when no row has the id the table is
\* unchanged.  A deleted job does not come back: only an INSERT of
\* create_media or schedule adds a job, and GET /api/queue lists exactly the
\* rows of the table, so no later listing shows the deleted job.
C6_Step ==
    /\ \A id \in Ids : (lastResp'.op = "delete" /\ DeleteQueue(id, TRUE)) =>
          /\ lastResp'.code = 200 /\ lastResp'.body = [ok |-> TRUE]
          /\ RowsOf(store', id) = {}
          /\ store' = store \ RowsOf(store, id)
          /\ RowsOf(store, id) = {} => store' = store
    /\ lastResp'.op = "delete" => (lastResp'.code = 200 \/ store' = store)
    /\ Serials(store') \subseteq Serials(store) \cup {nextSerial}
    /\ Serials(store') \ Serials(store) # {} =>
          /\ lastResp'.op \in {"create_media", "schedule"}
          /\ lastResp'.code = 200
    /\ (lastResp'.op = "queue" /\ lastResp'.code = 200) =>
          /\ {lastResp'.body[i] : i \in 1..Len(lastResp'.body)} = Table(store')
          /\ Len(lastResp'.body) = Cardinality(store')

C6_DeleteRemovesAndIsIdempotent == [][C6_Step]_vars

\* a DELETE has just removed a published row, another job is still stored
C6_Witness ==
    /\ lastResp.op = "delete" /\ lastResp.code = 200 /\ lastResp.changes = 1
    /\ RowsOf(store, lastResp.req) = {}
    /\ store # {}
    /\ nextSerial = 3

\* C7: when no row has the id a cron run is about to write (the job was
\* deleted after the run's SELECT), the UPDATE changes nothing: no row is
\* made for the id, and the loop goes on to the run's next due row.
C7_TickWriteOnDeletedIsNoOp ==
    [][\A run \in Runs :
          ( /\ lastResp' = NoResp /\ tick' # tick
            /\ RowsOf(store, CurId(run)) = {}
            /\ TickWrite(run, TRUE) ) =>
              /\ store' = store
              /\ run.idx < Len(run.due) => Continues(run)]_vars

\* a run whose UPDATE for its first due row matched no row is at its
\* second row, and the first job is not in the table
C7_Witness ==
    \E run \in Runs :
        /\ run.idx = 2
        /\ run.changes = 0
        /\ run.due[1].serial \notin Serials(store)
        /\ RowsOf(store, run.due[1].id) = {}

\* C8: a rejected UPDATE for one due row does not end the cron run: the
\* failing job stays as it is and the loop goes on to the other rows that
\* were due in the same run.
C8_FailureDoesNotAbortTick ==
    [][\A run \in Runs :
          TickWrite(run, FALSE) =>
              /\ store' = store
              /\ run.idx < Len(run.due) => Continues(run)]_vars

\* C9: create_media and schedule called with imageUrl missing or empty
\* answer 400 and leave the table as it was.
C9_MissingImageRejected ==
    [][/\ ( /\ lastResp'.op \in {"create_media", "schedule"}
            /\ lastResp'.req \in {Undefined, ""} )
          => /\ lastResp'.code = 400
             /\ store' = store
       /\ \A r \in store' : r.imageUrl \notin {Undefined, ""}]_vars

\* schedule has just rejected a request with an empty imageUrl while a job
\* is stored
C9_Witness ==
    /\ lastResp.op = "schedule" /\ lastResp.code = 400 /\ lastResp.req = ""
    /\ store # {}

\* C10 as claimed: a publish_media request that does not answer 200 leaves
\* the table as it was, and one that answers 200 has set the record of the
\* id it was given to 'published'.
C10_SuccessMeansPublished ==
    [][lastResp'.op = "publish_media" =>
          /\ lastResp'.code # 200 => store' = store
          /\ lastResp'.code = 200 =>
                \E r \in store' : /\ r.id = lastResp'.req
                                  /\ r.status = "published"]_vars

\* C10 as amended: a publish_media request that does not answer 200 leaves
\* the table as it was; one that answers 200 has set every row with the id
\* it was given to 'published' with scheduledAt equal to the publishedAt
\* it returns, and when no row has that id it has changed nothing.
C10_FailureLeavesRecord ==
    [][lastResp'.op = "publish_media" =>
          /\ lastResp'.code # 200 => store' = store
          /\ lastResp'.code = 200 =>
                /\ \A r \in RowsOf(store', lastResp'.req) :
                      /\ r.status = "published"
                      /\ r.scheduledAt = lastResp'.body.publishedAt
                /\ RowsOf(store, lastResp'.req) = {} => store' = store
                /\ Serials(store') = Serials(store)]_vars

\* publish_media has just failed on a job that is stored and scheduled
C10_Witness ==
    /\ lastResp.op = "publish_media" /\ lastResp.code = 500
    /\ \E r \in store : r.id = lastResp.req /\ r.status = "scheduled"

\* C11: every 'published' row has a scheduledAt, and it is the time of the
\* UPDATE that wrote the row last (a step that leaves a 'published' row
\* different from what it was has stamped it with the time of that step, in
\* place of the time planned before); a publish_media that answers 200
\* returns as publishedAt the scheduledAt it stored.
C11_Step ==
    /\ \A r2 \in store' : r2.status = "published" =>
          /\ r2.scheduledAt # NULL
          /\ r2.scheduledAt >= r2.createdAt
          /\ r2.pubs >= 1
          /\ r2 \in store \/ r2.scheduledAt = clock
    /\ (lastResp'.op = "publish_media" /\ lastResp'.code = 200) =>
          \A r2 \in RowsOf(store', lastResp'.req) :
              /\ r2.status = "published"
              /\ r2.scheduledAt = lastResp'.body.publishedAt

C11_PublishedCarriesPublishTime == [][C11_Step]_vars

\* a scheduled job that a cron run had published has just been published
\* again by publish_media at a later time, and its row carries that time
C11_Witness ==
    /\ lastResp.op = "publish_media" /\ lastResp.code = 200
    /\ \E r \in RowsOf(store, lastResp.req) :
          /\ r.status = "published" /\ r.by = {"now", "tick"} /\ r.pubs = 2
          /\ r.scheduledAt = lastResp.body.publishedAt
          /\ r.scheduledAt > r.createdAt

\* C12: the status of every stored row is 'created', 'scheduled' or
\* 'published', and every 'scheduled' row has a scheduledAt.
C12_StatusAndScheduledAtWellFormed ==
    \A r \in store :
        /\ r.status \in {"created", "scheduled", "published"}
        /\ r.status = "scheduled" => r.scheduledAt # NULL

\* schedule has just stored a job for one hour after its submission (the
\* value it stores when scheduleTime is not sent) next to a 'created' row,
\* which has no scheduledAt
C12_Witness ==
    /\ lastResp.op = "schedule" /\ lastResp.code = 200
    /\ \E r \in RowsOf(store, lastResp.body.jobId) :
          /\ r.status = "scheduled"
          /\ r.scheduledAt = r.createdAt + Hour
    /\ \E r \in store : r.status = "created" /\ r.scheduledAt = NULL

\* C13: ids are unique for the lifetime of the table: no two rows share an
\* id, and no INSERT is given an id that an earlier INSERT was given, whether
\* or not the earlier row has been deleted since.
C13_IdsNeverReused ==
    /\ \A r1, r2 \in store : r1.id = r2.id => r1 = r2
    /\ \A i, j \in 1..Len(issued) : i # j => issued[i] # issued[j]

\* C14: a cron run publishes only jobs that were 'scheduled' with
\* scheduledAt <= the time it read at its start: its SELECT returns no other
\* row, and a row that one of its UPDATEs turns 'published' was 'scheduled'
\* with a scheduledAt that had come (never a 'created' row, never a row
\* planned for a time after the run's start).
C14_Step ==
    /\ TickStart(TRUE) =>
          \A run \in BagToSet(tick') :
              CopiesIn(run, tick') > CopiesIn(run, tick) =>
                  \A k \in 1..Len(run.due) : \E r \in store :
                      /\ DueEntry(r) = run.due[k]
                      /\ r.status = "scheduled"
                      /\ r.scheduledAt # NULL /\ r.scheduledAt <= clock
    /\ \A run \in Runs : TickWrite(run, TRUE) =>
          \A r \in RowsOf(store, CurId(run)) :
              r.status # "published" =>
                  /\ r.status = "scheduled"
                  /\ r.scheduledAt # NULL /\ r.scheduledAt <= clock

C14_TickPublishesOnlyDueScheduled == [][C14_Step]_vars

\* C15: the failure of a cron run ends that run only.  With the scheduler
\* firing and the store working again (FairSpec), a job that is 'scheduled'
\* and due when a run has just failed is later 'published', unless it is
\* deleted first.
C15_FailedTickIsMadeUpLater ==
    \A s \in 1..MaxJobs :
        ( /\ lastResp = SchedulerError
          /\ \E r \in store : /\ r.serial = s
                              /\ r.status = "scheduled"
                              /\ r.scheduledAt <= clock )
        ~> (\A r \in store : r.serial = s => r.status = "published")

\* a cron run has just failed at its second row: the job of its first row is
\* 'published', the other is left 'scheduled' and due, and no run is in flight
C15_Witness ==
    /\ lastResp = SchedulerError
    /\ tick = EmptyBag
    /\ \E r \in store : r.status = "published" /\ r.by = {"tick"}
    /\ \E r \in store : /\ r.status = "scheduled" /\ r.pubs = 0
                        /\ r.scheduledAt <= clock

\* C16: a /api/schedule request that is served adds exactly one row, with
\* the id it returns as jobId, status 'scheduled' and the scheduledAt it
\* returns: the scheduleTime of the request, or the time of the request plus
\* one hour when scheduleTime was not sent.  It changes no other row; a
\* request that is not served adds none.
C16_Step ==
    /\ (lastResp'.op = "schedule" /\ lastResp'.code = 200) =>
          LET imageUrl == lastResp'.req
              id == lastResp'.body.jobId
          IN  /\ RowsOf(store, id) = {}
              /\ store \subseteq store'
              /\ Cardinality(store') = Cardinality(store) + 1
              /\ \A r \in RowsOf(store', id) :
                    /\ r.status = "scheduled"
                    /\ r.scheduledAt = lastResp'.body.scheduledAt
                    /\ r.imageUrl = imageUrl
                    /\ r.createdAt = clock
              /\ \A scheduleTime \in TimeInputs :
                    Schedule(imageUrl, Undefined, scheduleTime, id, TRUE) =>
                        lastResp'.body.scheduledAt =
                            IF scheduleTime = NULL THEN clock + Hour
                                                   ELSE scheduleTime
    /\ (lastResp'.op = "schedule" /\ lastResp'.code # 200) => store' = store

C16_ScheduleInsertsOneScheduledRow == [][C16_Step]_vars

\* schedule has just stored a second job for a time no scheduleTime of the
\* model's requests names: the request came without scheduleTime, at the
\* last clock value, and got that time plus one hour
C16_Witness ==
    /\ lastResp.op = "schedule" /\ lastResp.code = 200
    /\ lastResp.body.scheduledAt = MaxTime + Hour
    /\ Cardinality(store) = 2
    /\ \E r \in RowsOf(store, lastResp.body.jobId) :
          r.status = "scheduled" /\ r.scheduledAt = clock + Hour

\* C17: GET /api/queue, when served, returns every row of the table, each
\* once, a row created later before a row created earlier, and whether
\* served or not it leaves the table as it was.
C17_Step ==
    lastResp'.op = "queue" =>
        /\ store' = store
        /\ lastResp'.code = 200 =>
              LET rows == lastResp'.body
              IN  /\ Len(rows) = Cardinality(store)
                  /\ {rows[i] : i \in 1..Len(rows)} = Table(store)
                  /\ \A i, j \in 1..Len(rows) :
                        i < j => rows[i].createdAt >= rows[j].createdAt

C17_QueueListsAllNewestFirst == [][C17_Step]_vars

\* the listing just returned has two jobs created at different times, the
\* later one first
C17_Witness ==
    /\ lastResp.op = "queue" /\ lastResp.code = 200
    /\ Len(lastResp.body) = 2
    /\ lastResp.body[1].createdAt > lastResp.body[2].createdAt

\* C18: no step changes the id, imageUrl, caption or createdAt of a job that
\* stays in the table; a publish_media request and an UPDATE of a cron run
\* add and remove no row and leave every row with another id as it was.
C18_Step ==
    /\ \A r \in store, r2 \in store' : r.serial = r2.serial =>
          /\ r2.id = r.id
          /\ r2.imageUrl = r.imageUrl
          /\ r2.caption = r.caption
          /\ r2.createdAt = r.createdAt
    /\ lastResp'.op = "publish_media" =>
          /\ Serials(store') = Serials(store)
          /\ \A r \in store : r.id # lastResp'.req => r \in store'
    /\ \A run \in Runs :
          (lastResp' = NoResp /\ tick' # tick /\ TickWrite(run, TRUE)) =>
              /\ Serials(store') = Serials(store)
              /\ \A r \in store : r.id # CurId(run) => r \in store'

C18_WritesTouchStatusAndTimeOnly == [][C18_Step]_vars

\* a job created at one time has been published by both writers at a later
\* time, next to a job no UPDATE has hit
C18_Witness ==
    /\ \E r \in store : /\ r.status = "published" /\ r.by = {"now", "tick"}
                        /\ r.createdAt < r.scheduledAt
    /\ \E r \in store : r.pubs = 0

\* C19: a publish_media request for an id that no row has leaves the table
\* as it was (it makes no row for the id), and unless the store fails it is
\* answered 200 like any other, its UPDATE having matched no row.
C19_Step ==
    ( /\ lastResp'.op = "publish_media"
      /\ lastResp'.req # NoId
      /\ RowsOf(store, lastResp'.req) = {} ) =>
        /\ store' = store
        /\ RowsOf(store', lastResp'.req) = {}
        /\ lastResp'.code \in {200, 500}
        /\ PublishMedia(lastResp'.req, TRUE) =>
              /\ lastResp'.code = 200
              /\ lastResp'.changes = 0

C19_PublishOfAbsentIdIsSilentNoOp == [][C19_Step]_vars

\* publish_media has just answered 200 for an id that no row has, while
\* another job is stored and untouched
C19_Witness ==
    /\ lastResp.op = "publish_media" /\ lastResp.code = 200
    /\ lastResp.changes = 0
    /\ RowsOf(store, lastResp.req) = {}
    /\ \E r \in store : r.pubs = 0

\* C20: the loop of a cron run meets each job once: the rows of the run's
\* SELECT have different ids (and are different jobs), and the loop is at one
\* position of that list, which it only leaves forwards.
C20_RunMeetsEachJobOnce ==
    \A run \in Runs :
        /\ run.idx \in 1..Len(run.due)
        /\ \A i, j \in 1..Len(run.due) :
              i # j => /\ run.due[i].id # run.due[j].id
                       /\ run.due[i].serial # run.due[j].serial

\* a run that read two due jobs has written the first and is at the second
C20_Witness ==
    \E run \in Runs :
        /\ Len(run.due) = 2 /\ run.idx = 2 /\ run.changes = 1
        /\ \E r \in store : /\ r.serial = run.due[1].serial
                            /\ r.status = "published" /\ r.pubs = 1
        /\ \E r \in store : /\ r.serial = run.due[2].serial
                            /\ r.status = "scheduled"

\* C21: every stored row has an imageUrl that is there and not empty, so
\* every 'published' row has one, whether publish_media (which is given an
\* id only) or a cron run published it.
C21_EveryJobHasAnImage ==
    \A r \in store : r.imageUrl # Undefined /\ r.imageUrl # ""

\* a job made by create_media and published by publish_media next to a job
\* published by a cron run
C21_Witness ==
    /\ \E r \in store : r.status = "published" /\ r.by = {"now"}
    /\ \E r \in store : r.status = "published" /\ r.by = {"tick"}

\* C22: a step of the scheduler (the SELECT of a run, an UPDATE of a run,
\* resolved or rejected) adds no row and removes none; a row is added only
\* by a create_media or schedule request that is served, and removed only
\* by a delete request that is served.
C22_Step ==
    /\ lastResp'.op \in {"none", "scheduler_error"} =>
          /\ IdsOf(store') = IdsOf(store)
          /\ Serials(store') = Serials(store)
    /\ (IdsOf(store') \ IdsOf(store) # {}
          \/ Serials(store') \ Serials(store) # {}) =>
          /\ lastResp'.op \in {"create_media", "schedule"}
          /\ lastResp'.code = 200
    /\ (IdsOf(store) \ IdsOf(store') # {}
          \/ Serials(store) \ Serials(store') # {}) =>
          /\ lastResp'.op = "delete"
          /\ lastResp'.code = 200

C22_TickKeepsTheSetOfJobs == [][C22_Step]_vars

\* a cron run has just written the last of two due jobs and has returned:
\* both rows are still stored, 'published' by the scheduler alone
C22_Witness ==
    /\ lastResp = NoResp /\ tick = EmptyBag
    /\ Cardinality(store) = 2
    /\ \A r \in store : r.status = "published" /\ r.by = {"tick"} /\ r.pubs = 1
====
